---- MODULE Spec2Model ----
(***************************************************************************)
(* The MSI signer of relic (signers/msi/signer.go): transform, GetReader,  *)
(* sign, Apply and verify, with the io.Pipe that joins the MsiToTar        *)
(* goroutine to the digesting consumer and the atomicfile that Apply       *)
(* writes through.                                                         *)
(*                                                                         *)
(* One msiTransformer over one open file is modelled.  The collaborators   *)
(* of other packages (comdoc, authenticode, atomicfile, pkcs) are modelled *)
(* by their contract: each may fail where it returns an error.             *)
(***************************************************************************)
EXTENDS Integers, Sequences, FiniteSets, TLC

\* ---------------------------------------------------------------- bounds
StreamLen == 2          \* bytes of the canonical tar stream
MaxReaders == 2         \* GetReader calls on the Transformer
MaxApply == 2           \* Apply calls on the Transformer

\* ---------------------------------------------------------------- values
SrcPath == "src"        \* t.f.Name()
OutPath == "out"        \* any other destination
Paths == {SrcPath, OutPath}
Hashes == {"sha1", "sha256"}
Certs == {"certA", "certB"}

Nil == <<>>             \* a nil []byte / no value

\* the content of a file: the container's body, the embedded signature
\* stream, the embedded MsiDigitalSignatureEx stream, and whether the
\* compound document's directory is consistent with its streams
File(body, sig, ex, fin) == [body |-> body, sig |-> sig, ex |-> ex, fin |-> fin]
NoFile == File(0, Nil, Nil, FALSE)
SrcBody == 1
OldBody == 2

\* authenticode.MsiToTar: the canonical bytes of a parsed document
MsiToTar(body) == [k \in 1..StreamLen |-> body + k]

\* authenticode.PrehashMSI: the extended digest of a parsed document
PrehashMSI(body, hash) == <<"prehash", hash, body>>

\* authenticode.DigestMsiTar: the imprint over the bytes read from the stream
DigestMsiTar(bytes, hash, extended) == <<hash, extended, bytes>>

\* authenticode.SignMSIImprint then pkcs.Timestamp: the PKCS#7 blob over
\* the imprint, made with the certificate's signer and chain
Pkcs7(sum, hash, c) == <<"pkcs7", hash, sum, c>>

\* authenticode.VerifyMSI with digests: the signature is present, the
\* document is well formed, and the imprint matches the recomputed one
VerifyMSI(file) ==
    /\ file.fin
    /\ file.sig # Nil
    /\ file.sig = Pkcs7(DigestMsiTar(MsiToTar(file.body), file.sig[2], file.ex # Nil),
                        file.sig[2], file.sig[4])
    /\ file.ex # Nil => file.ex = PrehashMSI(file.body, file.sig[2])

\* what authenticode.VerifyMSI returns for a file that verifies
VerifiedSig(file) == [HashFunc |-> file.sig[2], TimestampedSignature |-> file.sig]

\* &signers.Signature{Hash: sig.HashFunc, X509Signature: &sig.TimestampedSignature}
VerifyRecordNoHash(sig) == [Hash |-> "none", X509Signature |-> sig.TimestampedSignature]
VerifyRecord(sig) == [Hash |-> sig.HashFunc, X509Signature |-> sig.TimestampedSignature]

\* verify: the signature records of a file, none on error
verify(file) == IF VerifyMSI(file) THEN <<VerifyRecord(VerifiedSig(file))>> ELSE <<>>

VARIABLES
    opts,       \* signers.SignOpts: [hash, noExtended, flagOk]
    cert,       \* the certloader.Certificate given to sign
    tlog,       \* what transform's collaborators returned
    disk,       \* the bytes under each path
    tstate,     \* transform: "none" not called, "ok" returned t, "err"
    t,          \* msiTransformer: [cdf, exsig]; t.f is the handle on SrcPath
    fOpen,      \* t.f is open
    pipes,      \* io.Pipe of each GetReader call
    prods,      \* the goroutines started by GetReader
    signs,      \* the sign call consuming each reader
    ap,         \* the frame of the running (or last) Apply call
    pre,        \* the bytes under each path when that call began
    staged,     \* the atomicfile's staged copy
    applyLog    \* the Apply calls that have returned

vars == <<opts, cert, tlog, disk, tstate, t, fOpen, pipes, prods, signs, ap, pre, staged, applyLog>>

\* ---------------------------------------------------------------- Init
\* an Apply frame: its position, its arguments, whether f is t.f, the
\* structure writer cdf, the steps that have succeeded, its result
NoApply == [pc |-> "idle", dest |-> SrcPath, blob |-> Nil, inplace |-> FALSE,
            cdf |-> "none", done |-> <<>>, res |-> "none"]

\* the unsigned container under SrcPath, an older file under OutPath
InitDisk == [p \in Paths |->
               IF p = SrcPath THEN File(SrcBody, Nil, Nil, TRUE)
                              ELSE File(OldBody, Nil, Nil, TRUE)]

\* the options of one operation; flagOk is whether the no-extended-sig
\* flag can be looked up in opts.Flags (a flag that cannot has no value)
SignOpts == {o \in [hash : Hashes, noExtended : BOOLEAN, flagOk : BOOLEAN] :
               o.noExtended => o.flagOk}

\* noExtended, _ := opts.Flags.GetBool("no-extended-sig"): the flag's
\* value, or false with the error dropped
GetBool(o) == IF o.flagOk THEN o.noExtended ELSE FALSE

NoLog == [read |-> "none", flag |-> "none", prehash |-> "none"]

Init ==
    /\ opts \in SignOpts
    /\ cert \in Certs
    /\ tlog = NoLog
    /\ disk = InitDisk
    /\ tstate = "none"
    /\ t = [cdf |-> 0, exsig |-> Nil]
    /\ fOpen = TRUE
    /\ pipes = <<>>
    /\ prods = <<>>
    /\ signs = <<>>
    /\ ap = NoApply
    /\ pre = disk
    /\ staged = NoFile
    /\ applyLog = <<>>

\* ---------------------------------------------------------------- the caller
\* transform, GetReader, sign and Apply are synchronous calls of the one
\* owner of the Transformer: a call starts when no other is running
SignRunning == \E i \in 1..Len(signs) : signs[i].stage \in {"digest", "imprint", "timestamp"}
CallerIdle == ap.pc = "idle" /\ ~SignRunning

\* ---------------------------------------------------------------- transform
\* if !noExtended
WantsExtendedInverted(noExtended) == noExtended
WantsExtended(noExtended) == ~noExtended

\* the error checks of transform: after comdoc.ReadFile and after
\* PrehashMSI
TransformReturnsUnchecked(readOk, prehashOk) == IF readOk THEN "ok" ELSE "err"
TransformReturns(readOk, prehashOk) == IF readOk /\ prehashOk THEN "ok" ELSE "err"

\* transform: comdoc.ReadFile, the flag, PrehashMSI, the struct literal
Transform ==
    /\ tstate = "none"
    /\ CallerIdle
    /\ \E readOk \in BOOLEAN, prehashOk \in BOOLEAN :
         LET wants == WantsExtended(GetBool(opts))
         IN /\ (~readOk \/ ~wants) => prehashOk
            /\ tlog' = [read |-> IF readOk THEN "ok" ELSE "err",
                        flag |-> IF ~readOk THEN "none"
                                 ELSE IF opts.flagOk THEN "ok" ELSE "err",
                        prehash |-> IF ~readOk \/ ~wants THEN "none"
                                    ELSE IF prehashOk THEN "ok" ELSE "err"]
            /\ tstate' = TransformReturns(readOk, prehashOk)
            /\ IF TransformReturns(readOk, prehashOk) = "err"
                 THEN t' = t
                 ELSE t' = [cdf |-> disk[SrcPath].body,
                            exsig |-> IF wants /\ prehashOk
                                        THEN PrehashMSI(disk[SrcPath].body, opts.hash)
                                        ELSE Nil]
    /\ UNCHANGED <<opts, cert, disk, fOpen, pipes, prods, signs, ap, pre, staged, applyLog>>

\* ---------------------------------------------------------------- GetReader
\* r, w := io.Pipe()
NewPipe == [inflight |-> <<>>, closed |-> "open", written |-> <<>>]

\* go func() { ... }(): the goroutines one call starts, over pipe n
NewProducersOnce(n) == IF n > 1 THEN <<>> ELSE <<[pipe |-> n, pos |-> 0, st |-> "run"]>>
NewProducers(n) == <<[pipe |-> n, pos |-> 0, st |-> "run"]>>

\* a sign call: its position, the bytes DigestMsiTar has read, how the
\* stream ended for it, the collaborators it has invoked, its results
NewSign == [stage |-> "none", recv |-> <<>>, term |-> "none", ran |-> {},
            failed |-> "none", sum |-> Nil, arg |-> Nil, blob |-> Nil]

GetReader ==
    /\ tstate = "ok"
    /\ CallerIdle
    /\ Len(pipes) < MaxReaders
    /\ pipes' = Append(pipes, NewPipe)
    /\ prods' = prods \o NewProducers(Len(pipes) + 1)
    /\ signs' = Append(signs, NewSign)
    /\ UNCHANGED <<opts, cert, tlog, disk, tstate, t, fOpen, ap, pre, staged, applyLog>>

\* ---------------------------------------------------------------- the goroutine
\* PipeWriter.Write returns once every byte of the write has been read
WriteReturnsBuffered(p) == TRUE
WriteReturns(p) == p.inflight = <<>>

\* MsiToTar calls w.Write with the next n bytes of the stream
ProducerWrite(j) ==
    /\ prods[j].st = "run"
    /\ prods[j].pos < StreamLen
    /\ pipes[prods[j].pipe].closed = "open"
    /\ \E n \in 1..(StreamLen - prods[j].pos) :
         LET chunk == SubSeq(MsiToTar(t.cdf), prods[j].pos + 1, prods[j].pos + n)
             i == prods[j].pipe
         IN /\ pipes' = [pipes EXCEPT ![i].inflight = @ \o chunk,
                                      ![i].written = @ \o chunk]
            /\ prods' = [prods EXCEPT ![j].st = "write", ![j].pos = @ + n]
    /\ UNCHANGED <<opts, cert, tlog, disk, tstate, t, fOpen, signs, ap, pre, staged, applyLog>>

\* w.Write returns to MsiToTar
ProducerWriteReturn(j) ==
    /\ prods[j].st = "write"
    /\ WriteReturns(pipes[prods[j].pipe])
    /\ prods' = [prods EXCEPT ![j].st = "run"]
    /\ UNCHANGED <<opts, cert, tlog, disk, tstate, t, fOpen, pipes, signs, ap, pre, staged, applyLog>>

\* w.CloseWithError(err): what the reader gets once the pipe is drained
CloseWithErrorDropped(failed) == "eof"
CloseWithErrorOmitted(failed) == "open"
CloseWithError(failed) == IF failed THEN "err" ELSE "eof"

\* MsiToTar returns (nil at the end of the stream, an error anywhere) and
\* the goroutine closes the pipe with what it returned
ProducerReturn(j) ==
    /\ prods[j].st = "run"
    /\ \E failed \in BOOLEAN :
         /\ ~failed => prods[j].pos = StreamLen
         /\ prods' = [prods EXCEPT ![j].st = IF failed THEN "failed" ELSE "done"]
         /\ pipes' = [pipes EXCEPT ![prods[j].pipe].closed =
                         IF @ = "open" THEN CloseWithError(failed) ELSE @]
    /\ UNCHANGED <<opts, cert, tlog, disk, tstate, t, fOpen, signs, ap, pre, staged, applyLog>>

\* ---------------------------------------------------------------- sign
\* the caller hands the reader of pipe i to sign
SignCall(i) ==
    /\ CallerIdle
    /\ signs[i].stage = "none"
    /\ signs' = [signs EXCEPT ![i].stage = "digest", ![i].ran = {"digest"}]
    /\ UNCHANGED <<opts, cert, tlog, disk, tstate, t, fOpen, pipes, prods, ap, pre, staged, applyLog>>

\* DigestMsiTar reads n bytes of the write in flight
SignRead(i) ==
    /\ signs[i].stage = "digest"
    /\ pipes[i].inflight # <<>>
    /\ \E n \in 1..Len(pipes[i].inflight) :
         /\ signs' = [signs EXCEPT ![i].recv = @ \o SubSeq(pipes[i].inflight, 1, n)]
         /\ pipes' = [pipes EXCEPT ![i].inflight =
                         SubSeq(@, n + 1, Len(@))]
    /\ UNCHANGED <<opts, cert, tlog, disk, tstate, t, fOpen, prods, ap, pre, staged, applyLog>>

\* the extended argument of DigestMsiTar: !noExtended
SignExtendedInverted(o) == GetBool(o)
SignExtended(o) == ~GetBool(o)

\* if err != nil { return nil, err } after DigestMsiTar
AfterDigestIgnored(err) == "imprint"
AfterDigest(err) == IF err THEN "err" ELSE "imprint"

\* DigestMsiTar reads the end of the stream: io.EOF or the producer's error
SignReadEnd(i) ==
    /\ signs[i].stage = "digest"
    /\ pipes[i].inflight = <<>>
    /\ pipes[i].closed # "open"
    /\ signs' = [signs EXCEPT
                   ![i].term = pipes[i].closed,
                   ![i].stage = AfterDigest(pipes[i].closed = "err"),
                   ![i].failed = IF pipes[i].closed = "err" THEN "digest" ELSE @,
                   ![i].sum = IF pipes[i].closed = "err" THEN Nil
                              ELSE DigestMsiTar(signs[i].recv, opts.hash,
                                                SignExtended(opts))]
    /\ UNCHANGED <<opts, cert, tlog, disk, tstate, t, fOpen, pipes, prods, ap, pre, staged, applyLog>>

\* DigestMsiTar fails on what it has read and stops reading
SignDigestFail(i) ==
    /\ signs[i].stage = "digest"
    /\ signs' = [signs EXCEPT ![i].stage = AfterDigest(TRUE), ![i].failed = "digest"]
    /\ UNCHANGED <<opts, cert, tlog, disk, tstate, t, fOpen, pipes, prods, ap, pre, staged, applyLog>>

\* what sign hands to the signer: SignMSIImprint(sum, opts.Hash, ...)
ImprintArgStream(s) == s.recv
ImprintArg(s) == s.sum

\* SignMSIImprint over sum
SignImprint(i) ==
    /\ signs[i].stage = "imprint"
    /\ \E ok \in BOOLEAN :
         signs' = [signs EXCEPT ![i].stage = IF ok THEN "timestamp" ELSE "err",
                                ![i].failed = IF ok \/ @ # "none" THEN @ ELSE "imprint",
                                ![i].arg = ImprintArg(signs[i]),
                                ![i].ran = @ \cup {"imprint"}]
    /\ UNCHANGED <<opts, cert, tlog, disk, tstate, t, fOpen, pipes, prods, ap, pre, staged, applyLog>>

\* return pkcs.Timestamp(psd, cert, opts, true)
SignTimestamp(i) ==
    /\ signs[i].stage = "timestamp"
    /\ \E ok \in BOOLEAN :
         signs' = [signs EXCEPT ![i].stage = IF ok THEN "ok" ELSE "err",
                                ![i].failed = IF ok \/ @ # "none" THEN @ ELSE "timestamp",
                                ![i].ran = @ \cup {"timestamp"},
                                ![i].blob = IF ok THEN Pkcs7(signs[i].sum, opts.hash, cert)
                                                  ELSE Nil]
    /\ UNCHANGED <<opts, cert, tlog, disk, tstate, t, fOpen, pipes, prods, ap, pre, staged, applyLog>>

\* ---------------------------------------------------------------- Apply
\* the file InsertMSISignature and cdf.Close write to: t.f itself when the
\* file was opened in place, the staged copy otherwise
Target == IF ap.inplace THEN disk[SrcPath] ELSE staged

WriteTarget(file) ==
    IF ap.inplace
      THEN /\ disk' = [disk EXCEPT ![SrcPath] = file]
           /\ staged' = staged
      ELSE /\ staged' = file
           /\ disk' = disk

\* if err != nil { return err }: Apply goes on to next only after a step
\* that succeeded
ApplyStepUnchecked(ok, next) == next
ApplyStep(ok, next) == IF ok THEN next ELSE "return"

\* the frame after a step: at next, with the step recorded when it succeeded
Advance(step, ok, next) ==
    [ap EXCEPT !.pc = next, !.done = IF ok THEN Append(@, step) ELSE @]

\* Apply returns res; from line 92 on the deferred f.Close() runs first: it
\* drops the staged copy, and closes t.f when f is t.f
ApplyReturn(res, deferred) ==
    /\ ap' = [ap EXCEPT !.pc = "idle", !.res = res,
                        !.done = IF res = "ok" THEN Append(@, "Commit") ELSE @]
    /\ applyLog' = Append(applyLog, res)
    /\ fOpen' = IF deferred /\ ap.inplace THEN FALSE ELSE fOpen

\* Apply is called with dest and the blob of a sign that returned one;
\* blob, err := ioutil.ReadAll(result)
ApplyReadAll ==
    /\ tstate = "ok"
    /\ CallerIdle
    /\ Len(applyLog) < MaxApply
    /\ \E dest \in Paths, i \in 1..Len(signs), ok \in BOOLEAN :
         /\ signs[i].stage = "ok"
         /\ pre' = disk
         /\ IF ApplyStep(ok, "WriteInPlace") = "return"
              THEN /\ ap' = [NoApply EXCEPT !.dest = dest, !.res = "err"]
                   /\ applyLog' = Append(applyLog, "err")
                   /\ fOpen' = fOpen
              ELSE /\ ap' = [NoApply EXCEPT !.pc = "WriteInPlace", !.dest = dest,
                                            !.blob = IF ok THEN signs[i].blob ELSE Nil,
                                            !.done = IF ok THEN <<"ReadAll">> ELSE <<>>]
                   /\ UNCHANGED <<applyLog, fOpen>>
    /\ UNCHANGED <<opts, cert, tlog, disk, tstate, t, pipes, prods, signs, staged>>

\* f, err := atomicfile.WriteInPlace(t.f, dest): t.f itself when dest is
\* its name, else a staged copy of what t.f reads
ApplyWriteInPlace ==
    /\ ap.pc = "WriteInPlace"
    /\ IF ap.dest = SrcPath
         THEN /\ ap' = [Advance("WriteInPlace", TRUE, "WriteFile") EXCEPT !.inplace = TRUE]
              /\ UNCHANGED <<staged, applyLog, fOpen>>
         ELSE \E ok \in BOOLEAN :
                /\ ~fOpen => ~ok
                /\ IF ApplyStep(ok, "WriteFile") = "return"
                     THEN /\ ApplyReturn("err", FALSE)
                          /\ staged' = staged
                     ELSE /\ staged' = IF ok THEN disk[SrcPath] ELSE staged
                          /\ ap' = Advance("WriteInPlace", ok, "WriteFile")
                          /\ UNCHANGED <<applyLog, fOpen>>
    /\ UNCHANGED <<opts, cert, tlog, disk, tstate, t, pipes, prods, signs, pre>>

\* cdf, err := comdoc.WriteFile(f.GetFile())
ApplyWriteFile ==
    /\ ap.pc = "WriteFile"
    /\ \E ok \in BOOLEAN :
         /\ (ap.inplace /\ ~fOpen) => ~ok
         /\ IF ApplyStep(ok, "InsertSig") = "return"
              THEN /\ ApplyReturn("err", TRUE)
                   /\ staged' = NoFile
              ELSE /\ ap' = [Advance("WriteFile", ok, "InsertSig") EXCEPT
                               !.cdf = IF ok THEN "open" ELSE @]
                   /\ UNCHANGED <<applyLog, fOpen, staged>>
    /\ UNCHANGED <<opts, cert, tlog, disk, tstate, t, pipes, prods, signs, pre>>

\* the extended digest Apply hands to InsertMSISignature
ApplyExsigNil == Nil
ApplyExsig == t.exsig

\* authenticode.InsertMSISignature(cdf, blob, t.exsig), first the signature
\* stream
ApplyInsertSig ==
    /\ ap.pc = "InsertSig"
    /\ \E ok \in BOOLEAN :
         IF ApplyStep(ok, "InsertEx") = "return"
           THEN /\ ApplyReturn("err", TRUE)
                /\ staged' = NoFile
                /\ disk' = disk
           ELSE /\ IF ok THEN WriteTarget([Target EXCEPT !.sig = ap.blob, !.fin = FALSE])
                         ELSE UNCHANGED <<disk, staged>>
                /\ ap' = Advance("InsertSig", ok, "InsertEx")
                /\ UNCHANGED <<applyLog, fOpen>>
    /\ UNCHANGED <<opts, cert, tlog, tstate, t, pipes, prods, signs, pre>>

\* ... then the MsiDigitalSignatureEx stream, written when exsig is not
\* empty and removed when it is
ApplyInsertEx ==
    /\ ap.pc = "InsertEx"
    /\ \E ok \in BOOLEAN :
         IF ApplyStep(ok, "Close") = "return"
           THEN /\ ApplyReturn("err", TRUE)
                /\ staged' = NoFile
                /\ disk' = disk
           ELSE /\ IF ok THEN WriteTarget([Target EXCEPT !.ex = ApplyExsig])
                         ELSE UNCHANGED <<disk, staged>>
                /\ ap' = Advance("InsertEx", ok, "Close")
                /\ UNCHANGED <<applyLog, fOpen>>
    /\ UNCHANGED <<opts, cert, tlog, tstate, t, pipes, prods, signs, pre>>

\* cdf.Close(): the directory and allocation tables are written out and
\* the structure writer is released
ApplyCdfClose ==
    /\ ap.pc = "Close"
    /\ \E ok \in BOOLEAN :
         IF ApplyStep(ok, "Commit") = "return"
           THEN /\ ap' = [ap EXCEPT !.pc = "idle", !.res = "err", !.cdf = "closed"]
                /\ applyLog' = Append(applyLog, "err")
                /\ fOpen' = IF ap.inplace THEN FALSE ELSE fOpen
                /\ staged' = NoFile
                /\ disk' = disk
           ELSE /\ IF ok THEN WriteTarget([Target EXCEPT !.fin = TRUE])
                         ELSE UNCHANGED <<disk, staged>>
                /\ ap' = [Advance("Close", ok, "Commit") EXCEPT !.cdf = "closed"]
                /\ UNCHANGED <<applyLog, fOpen>>
    /\ UNCHANGED <<opts, cert, tlog, tstate, t, pipes, prods, signs, pre>>

\* return f.Commit(): the staged copy takes the destination's name; in
\* place there is nothing to rename and the file is closed
ApplyCommit ==
    /\ ap.pc = "Commit"
    /\ \E ok \in BOOLEAN :
         /\ disk' = IF ok /\ ~ap.inplace THEN [disk EXCEPT ![ap.dest] = staged]
                                          ELSE disk
         /\ staged' = NoFile
         /\ ApplyReturn(IF ok THEN "ok" ELSE "err", TRUE)
    /\ UNCHANGED <<opts, cert, tlog, tstate, t, pipes, prods, signs, pre>>

\* ---------------------------------------------------------------- specifications
\* the goroutines run concurrently with the caller
Producers ==
    \/ \E j \in 1..Len(prods) : ProducerWrite(j)
    \/ \E j \in 1..Len(prods) : ProducerWriteReturn(j)
    \/ \E j \in 1..Len(prods) : ProducerReturn(j)

\* GetReader as one signing operation calls it: once
GetReaderOnce == pipes = <<>> /\ GetReader

\* One signing operation: transform, GetReader, sign, and any sequence of
\* Apply calls.
Next ==
    \/ Transform
    \/ GetReaderOnce
    \/ \E i \in 1..Len(signs) : SignCall(i)
    \/ \E i \in 1..Len(signs) : SignRead(i)
    \/ \E i \in 1..Len(signs) : SignReadEnd(i)
    \/ \E i \in 1..Len(signs) : SignDigestFail(i)
    \/ \E i \in 1..Len(signs) : SignImprint(i)
    \/ \E i \in 1..Len(signs) : SignTimestamp(i)
    \/ ApplyReadAll
    \/ ApplyWriteInPlace
    \/ ApplyWriteFile
    \/ ApplyInsertSig
    \/ ApplyInsertEx
    \/ ApplyCdfClose
    \/ ApplyCommit
    \/ Producers

Spec == Init /\ [][Next]_vars

\* The read side: any sequence of GetReader and sign calls on the
\* Transformer.
NextStream ==
    \/ Transform
    \/ GetReader
    \/ \E i \in 1..Len(signs) : SignCall(i)
    \/ \E i \in 1..Len(signs) : SignRead(i)
    \/ \E i \in 1..Len(signs) : SignReadEnd(i)
    \/ \E i \in 1..Len(signs) : SignDigestFail(i)
    \/ \E i \in 1..Len(signs) : SignImprint(i)
    \/ \E i \in 1..Len(signs) : SignTimestamp(i)
    \/ Producers

SpecStream == Init /\ [][NextStream]_vars

\* Any sequence of GetReader, sign and Apply calls on the Transformer.
NextAll ==
    \/ Transform
    \/ GetReader
    \/ \E i \in 1..Len(signs) : SignCall(i)
    \/ \E i \in 1..Len(signs) : SignRead(i)
    \/ \E i \in 1..Len(signs) : SignReadEnd(i)
    \/ \E i \in 1..Len(signs) : SignDigestFail(i)
    \/ \E i \in 1..Len(signs) : SignImprint(i)
    \/ \E i \in 1..Len(signs) : SignTimestamp(i)
    \/ ApplyReadAll
    \/ ApplyWriteInPlace
    \/ ApplyWriteFile
    \/ ApplyInsertSig
    \/ ApplyInsertEx
    \/ ApplyCdfClose
    \/ ApplyCommit
    \/ Producers

SpecAll == Init /\ [][NextAll]_vars

\* The read side with a consumer that reads each stream it is given to
\* its end: DigestMsiTar fails only on the stream's own error.
NextLive ==
    \/ Transform
    \/ GetReader
    \/ \E i \in 1..Len(signs) : SignCall(i)
    \/ \E i \in 1..Len(signs) : SignRead(i)
    \/ \E i \in 1..Len(signs) : SignReadEnd(i)
    \/ \E i \in 1..Len(signs) : SignImprint(i)
    \/ \E i \in 1..Len(signs) : SignTimestamp(i)
    \/ Producers

\* the goroutines and the reading consumer are scheduled: a step of theirs
\* that stays possible is taken
Fairness ==
    \A k \in 1..MaxReaders :
        /\ WF_vars(IF k <= Len(prods) THEN ProducerWrite(k) ELSE FALSE)
        /\ WF_vars(IF k <= Len(prods) THEN ProducerWriteReturn(k) ELSE FALSE)
        /\ WF_vars(IF k <= Len(prods) THEN ProducerReturn(k) ELSE FALSE)
        /\ WF_vars(IF k <= Len(signs) THEN SignRead(k) ELSE FALSE)
        /\ WF_vars(IF k <= Len(signs) THEN SignReadEnd(k) ELSE FALSE)

SpecLive == Init /\ [][NextLive]_vars /\ Fairness
\* ---------------------------------------------------------------- properties
\* the container with blob and the Transformer's extended digest embedded
Embedded(file, blob) == [file EXCEPT !.sig = blob, !.ex = t.exsig, !.fin = TRUE]

\* C1: an Apply made after an Apply that returned success returns an
\* error: no Transformer embeds a signature twice.
C1_ApplyAtMostOnce ==
    \A a, b \in 1..Len(applyLog) :
        (a < b /\ applyLog[a] = "ok") => applyLog[b] = "err"

\* C2: during and after an Apply call, the bytes under the destination path
\* are the bytes from before the call or the fully embedded result, for
\* either kind of destination.
C2_DestPreOrPost ==
    ap.res # "none" \/ ap.pc # "idle" =>
        disk[ap.dest] \in {pre[ap.dest], Embedded(pre[SrcPath], ap.blob)}

\* C3: when Apply has returned an error, no staged file is left and every
\* path holds the bytes it held when Apply was called.
C3_ErrorLeavesOriginal ==
    (ap.pc = "idle" /\ ap.res = "err") => (staged = NoFile /\ disk = pre)

\* the collaborators sign has invoked when it fails in the given one
RanUpTo(stage) ==
    CASE stage = "digest" -> {"digest"}
      [] stage = "imprint" -> {"digest", "imprint"}
      [] stage = "timestamp" -> {"digest", "imprint", "timestamp"}
      [] OTHER -> {}

\* C4: when a sign call fails (the stream ends in an error, DigestMsiTar,
\* SignMSIImprint or Timestamp fails), it returns an error and no blob, it
\* invokes nothing after the step that failed, Apply is not invoked, and
\* the files are byte-identical to what they were.
C4_SignFailureAborts ==
    \A i \in 1..Len(signs) :
        (signs[i].failed # "none" \/ signs[i].term = "err" \/ signs[i].stage = "err") =>
            /\ signs[i].stage = "err"
            /\ signs[i].blob = Nil
            /\ signs[i].failed # "none"
            /\ signs[i].ran = RanUpTo(signs[i].failed)
            /\ signs[i].term = "err" => signs[i].failed = "digest"
            /\ ap = NoApply
            /\ applyLog = <<>>
            /\ staged = NoFile
            /\ disk = InitDisk

C4_Witness ==
    \E i \in 1..Len(signs) :
        /\ signs[i].stage = "err"
        /\ signs[i].term = "err"
        /\ Len(signs[i].recv) = 1

\* C5: the reader of GetReader's stream is given the bytes the producer
\* wrote, in order and with none missing; it sees end-of-stream only after
\* every byte of a producer that succeeded, and the producer's error, after
\* the bytes written before it, when the producer failed; nothing is
\* delivered after either.
C5_StreamDelivery ==
    \A i \in 1..Len(pipes) :
        /\ pipes[i].written = signs[i].recv \o pipes[i].inflight
        /\ pipes[i].written = SubSeq(MsiToTar(t.cdf), 1, Len(pipes[i].written))
        /\ signs[i].term # "none" => signs[i].recv = pipes[i].written
        /\ signs[i].term = "eof" =>
               /\ prods[i].st = "done"
               /\ signs[i].recv = MsiToTar(t.cdf)
        /\ signs[i].term = "err" => prods[i].st = "failed"
        /\ (prods[i].st = "failed" /\ signs[i].term # "none") => signs[i].term = "err"

C5_Witness ==
    \E i \in 1..Len(pipes) :
        /\ signs[i].term = "err"
        /\ prods[i].st = "failed"
        /\ Len(signs[i].recv) = 1

\* C6 as stated: a Transformer has at most one producer task, whatever the
\* calls made on it.
C6_OneProducerPerTransformer == Len(prods) <= 1

\* C6 as amended: each GetReader call starts exactly one producer task,
\* writing to the pipe that call created.
C6_OneProducerPerGetReader ==
    /\ Len(prods) = Len(pipes)
    /\ \A i \in 1..Len(pipes) :
         Cardinality({j \in 1..Len(prods) : prods[j].pipe = i}) = 1

C6_Witness ==
    /\ Len(pipes) = MaxReaders
    /\ Len(pipes) > 1
    /\ \A j \in 1..Len(prods) : prods[j].st = "write"

\* C7: the producer is never more than one unfinished Write ahead of the
\* reader: the bytes written and not yet read are those of the one Write
\* in progress, and a Write that has returned has been read in full.
C7_Backpressure ==
    \A j \in 1..Len(prods) :
        LET i == prods[j].pipe
        IN /\ Len(pipes[i].written) - Len(signs[i].recv) = Len(pipes[i].inflight)
           /\ prods[j].st # "write" => pipes[i].inflight = <<>>
           /\ prods[j].pos = Len(pipes[i].written)

C7_Witness ==
    \E j \in 1..Len(prods) :
        /\ prods[j].st = "write"
        /\ signs[prods[j].pipe].recv # <<>>
        /\ pipes[prods[j].pipe].inflight # <<>>

\* C8: the extended digest Apply embeds is the one transform computed from
\* the parsed structure before it returned, and so before any producer
\* existed; it is the same at every later point.
C8_ExsigSnapshot ==
    /\ tstate # "ok" => (pipes = <<>> /\ prods = <<>>)
    /\ (tstate = "ok" /\ ~opts.noExtended) =>
           /\ t.exsig = PrehashMSI(SrcBody, opts.hash)
           /\ ap.pc \in {"Close", "Commit"} => Target.ex = PrehashMSI(SrcBody, opts.hash)
           /\ (ap.pc = "idle" /\ ap.res = "ok") =>
                  disk[ap.dest].ex = PrehashMSI(SrcBody, opts.hash)

C8_Witness ==
    /\ ~opts.noExtended
    /\ ap.pc = "idle"
    /\ ap.res = "ok"
    /\ Len(applyLog) > 1
    /\ disk[ap.dest].ex # Nil

\* C9: with no-extended-sig set, transform computes no extended digest and
\* Apply embeds none; without it, one is computed and embedded; either way
\* the signature is embedded and the signed file verifies.
C9_FlagControlsOnlyExtended ==
    /\ tstate = "ok" => (opts.noExtended <=> t.exsig = Nil)
    /\ (ap.pc = "idle" /\ ap.res = "ok") =>
           /\ disk[ap.dest].sig = ap.blob
           /\ ap.blob # Nil
           /\ opts.noExtended <=> disk[ap.dest].ex = Nil
           /\ VerifyMSI(disk[ap.dest])

C9_Witness ==
    /\ opts.noExtended
    /\ ap.pc = "idle"
    /\ ap.res = "ok"
    /\ VerifyMSI(disk[ap.dest])

\* C10: once an Apply call has returned, a later Apply on the Transformer
\* fails at once: it opens no rewriter, stages no file and never succeeds.
C10_TerminalAfterApply ==
    applyLog # <<>> =>
        /\ ap.pc \in {"idle", "WriteInPlace"}
        /\ staged = NoFile
        /\ \A b \in 2..Len(applyLog) : applyLog[b] = "err"

\* C11: when Apply has returned, by any path, the container handle t.f is
\* closed, the structure writer opened with comdoc.WriteFile is closed and
\* no staged file is left.
C11_HandlesReleased ==
    (ap.pc = "idle" /\ ap.res # "none") =>
        (~fOpen /\ ap.cdf # "open" /\ staged = NoFile)

\* C12: no producer stays blocked in a Write, holding the parsed
\* structure, on a pipe whose consumer has returned without reading it to
\* the end.
C12_NoAbandonedProducer ==
    \A j \in 1..Len(prods) :
        ~ /\ prods[j].st = "write"
          /\ pipes[prods[j].pipe].inflight # <<>>
          /\ signs[prods[j].pipe].stage = "err"
          /\ signs[prods[j].pipe].term = "none"

\* C13: after transform, GetReader, sign and Apply have all succeeded,
\* verify of the written file returns one signature record, whose Hash is
\* the digest algorithm of the options and whose signature is by the
\* certificate given to sign.
C13_RoundTrip ==
    (ap.pc = "idle" /\ ap.res = "ok") =>
        LET v == verify(disk[ap.dest])
        IN /\ Len(v) = 1
           /\ v[1].Hash = opts.hash
           /\ v[1].X509Signature[4] = cert

C13_Witness ==
    /\ ap.pc = "idle"
    /\ ap.res = "ok"
    /\ ap.dest = OutPath
    /\ opts.hash = "sha256"
    /\ cert = "certB"
    /\ Len(verify(disk[OutPath])) = 1

\* C14: when comdoc.ReadFile or the requested PrehashMSI fails, transform
\* returns an error and no Transformer, no producer is started and no file
\* is changed; a Transformer exists only when both succeeded.
C14_TransformFailure ==
    /\ (tlog.read = "err" \/ tlog.prehash = "err") => tstate = "err"
    /\ tstate = "err" =>
           /\ t = [cdf |-> 0, exsig |-> Nil]
           /\ pipes = <<>>
           /\ prods = <<>>
           /\ ap = NoApply
           /\ staged = NoFile
           /\ disk = InitDisk
    /\ tstate = "ok" =>
           /\ tlog.read = "ok"
           /\ ~GetBool(opts) => tlog.prehash = "ok"

C14_Witness ==
    /\ tstate = "err"
    /\ tlog.read = "ok"
    /\ tlog.prehash = "err"

\* C15: what sign hands to the signer is the digest of the whole canonical
\* stream and nothing else, and only after the stream was read to its end
\* without error.
C15_OnlyDigestToBackend ==
    \A i \in 1..Len(signs) :
        IF "imprint" \in signs[i].ran
          THEN /\ signs[i].term = "eof"
               /\ signs[i].recv = MsiToTar(t.cdf)
               /\ signs[i].arg = DigestMsiTar(MsiToTar(t.cdf), opts.hash, ~GetBool(opts))
          ELSE signs[i].arg = Nil

C15_Witness ==
    \E i \in 1..Len(signs) :
        /\ signs[i].arg # Nil
        /\ signs[i].stage = "ok"

\* the steps of Apply that have succeeded when it is at pc
StepsBefore(pc) ==
    CASE pc = "WriteInPlace" -> <<"ReadAll">>
      [] pc = "WriteFile" -> <<"ReadAll", "WriteInPlace">>
      [] pc = "InsertSig" -> <<"ReadAll", "WriteInPlace", "WriteFile">>
      [] pc = "InsertEx" -> <<"ReadAll", "WriteInPlace", "WriteFile", "InsertSig">>
      [] pc = "Close" -> <<"ReadAll", "WriteInPlace", "WriteFile", "InsertSig", "InsertEx">>
      [] pc = "Commit" -> <<"ReadAll", "WriteInPlace", "WriteFile", "InsertSig", "InsertEx",
                            "Close">>
      [] OTHER -> <<>>

\* C16: Apply reads the blob, opens the rewriter, opens the structure for
\* writing, embeds, closes the writer and commits, in that order, each step
\* only after all earlier ones succeeded; nothing is staged or opened when
\* reading the blob fails.
C16_ApplyStepOrder ==
    /\ ap.pc # "idle" => ap.done = StepsBefore(ap.pc)
    /\ (ap.pc = "idle" /\ ap.res = "ok") => ap.done = Append(StepsBefore("Commit"), "Commit")
    /\ (ap.pc = "idle" /\ ap.res = "err") =>
           \E n \in 0..Len(StepsBefore("Commit")) :
               ap.done = SubSeq(StepsBefore("Commit"), 1, n)
    /\ (ap.pc = "idle" /\ ap.res = "err" /\ ap.done = <<>>) =>
           (staged = NoFile /\ ap.cdf = "none" /\ disk = pre)

C16_Witness ==
    /\ ap.pc = "Commit"
    /\ ~ap.inplace
    /\ staged = Embedded(disk[SrcPath], ap.blob)

\* C17: when the no-extended-sig flag cannot be looked up, transform
\* returns an error without having read the container.
C17_FlagErrorRejected ==
    ~opts.flagOk => (tlog.read = "none" /\ tstate \in {"none", "err"})

\* C18: while Apply is writing, every producer started by GetReader on the
\* Transformer has terminated.
C18_NoProducerDuringApply ==
    ap.pc \in {"InsertSig", "InsertEx", "Close", "Commit"} =>
        \A j \in 1..Len(prods) : prods[j].st \in {"done", "failed"}

\* C19: the imprint sign computes is the extended one exactly when the
\* Transformer holds an extended digest, and a signed file carries an
\* extended imprint exactly when it carries the extended digest.
C19_ExtendedModeAgrees ==
    /\ \A i \in 1..Len(signs) :
           signs[i].sum # Nil => (signs[i].sum[2] <=> t.exsig # Nil)
    /\ (ap.pc = "idle" /\ ap.res = "ok") =>
           (disk[ap.dest].sig[3][2] <=> disk[ap.dest].ex # Nil)

C19_Witness ==
    /\ ~opts.flagOk
    /\ ap.pc = "idle"
    /\ ap.res = "ok"
    /\ disk[ap.dest].sig[3][2]
    /\ disk[ap.dest].ex # Nil

\* sign is reading the k-th stream
Reading(k) == IF k <= Len(signs) THEN signs[k].stage = "digest" ELSE FALSE

\* the k-th stream has ended for its producer, its pipe and its consumer
Ended(k) ==
    IF k <= Len(signs)
      THEN /\ signs[k].term # "none"
           /\ pipes[k].closed # "open"
           /\ prods[k].st \in {"done", "failed"}
      ELSE FALSE

\* C20: a consumer that keeps reading a stream sees it end: the producer
\* terminates, the pipe is closed and the consumer gets end-of-stream or
\* the producer's error.
C20_StreamTerminates == \A k \in 1..MaxReaders : Reading(k) ~> Ended(k)

C20_Witness ==
    /\ Len(signs) = MaxReaders
    /\ \A k \in 1..Len(signs) : signs[k].term # "none"
    /\ \E k \in 1..Len(signs) : signs[k].term = "err"
    /\ \E k \in 1..Len(signs) : signs[k].term = "eof"
====
